---- MODULE Spec2Model ----
(***************************************************************************)
(* Model of the VK Market exporter (src/main.py): the paginated fetch      *)
(* get_all_vk_market_items, the image resolver get_image_url, and the      *)
(* spreadsheet export create_excel_file driven by main.                    *)
(*                                                                         *)
(* An item is modelled by its identifier, [id |-> n]; the rest of its      *)
(* payload (the "photos" list) is not read before create_excel_file        *)
(* writes the item's row, and is drawn there.  A URL is a number that      *)
(* identifies the variant inside its photo.  Sizes are in bytes.           *)
(***************************************************************************)
EXTENDS Integers, Sequences, FiniteSets, TLC

\* ---------------------------------------------------------------- bounds
MaxId == 3            \* identifiers of the catalog: 1..MaxId
MaxPageLen == 2       \* longest page the unconstrained server answers with
MaxTotal == 3         \* largest total the unconstrained server reports
MaxHonestTotal == 250 \* largest total of the well-behaved server
MaxDim == 2           \* widths and heights of a variant: 1..MaxDim
MaxVariants == 2      \* most size variants of one photo
MaxPhotos == 2        \* most photos of one item

\* ------------------------------------------------------ program constants
MAX_IMAGE_SIZE_MB == 6
items_per_request == 100

MiB == 1024 * 1024
None == <<>>          \* Python's None; also the unset total_items

VARIABLES
    pc,          \* position of the run: "loop", "sleep", "fetched", "export", "done"
    all_items,   \* get_all_vk_market_items: the accumulated list
    offset,      \* get_all_vk_market_items: offset of the next request
    total_items, \* get_all_vk_market_items: None or <<count>>
    log,         \* everything printed so far, one tag per print
    rows,        \* create_excel_file: data rows written to the worksheet
    saved,       \* whether workbook.save has produced the file
    arrived,     \* history: items in the order the pages delivered them
    events,      \* history: "req" per page request, "sleep" per pacing delay
    reqs,        \* history: per page request, its offset and the count held
    exit,        \* history: how the fetch loop ended
    photos,      \* image resolver run: the photo list given to get_image_url
    index,       \* image resolver run: the slot index
    probes,      \* image resolver run: outcome of the k-th size probe
    result       \* image resolver run: <<"pending">> or <<"returned", value>>

vars == <<pc, all_items, offset, total_items, log, rows, saved, arrived,
          events, reqs, exit, photos, index, probes, result>>

fetchVars == <<pc, all_items, offset, total_items, log, rows, saved, arrived,
               events, reqs, exit>>
imageVars == <<photos, index, probes, result>>

Max(a, b) == IF a >= b THEN a ELSE b
Min(a, b) == IF a <= b THEN a ELSE b

\* ============================================================ sorting
\* list.sort(key=...) / sorted(key=...): a stable ascending sort by key, here
\* a merge sort on a list of <<key, element>> pairs.
\* MergePairs merges two sorted lists; on equal keys the pairs of a come first.
\* A pair of a lands behind the pairs of b with a smaller key, a pair of b
\* behind the pairs of a with a smaller or equal key.
MergePairs(a, b) ==
    IF a = <<>> THEN b
    ELSE IF b = <<>> \/ a[Len(a)][1] <= b[1][1] THEN a \o b
    ELSE LET posA == [i \in 1..Len(a) |->
                        i + Cardinality({j \in 1..Len(b) : b[j][1] < a[i][1]})]
             posB == [j \in 1..Len(b) |->
                        j + Cardinality({i \in 1..Len(a) : a[i][1] <= b[j][1]})]
         IN  [k \in 1..(Len(a) + Len(b)) |->
                IF \E i \in 1..Len(a) : posA[i] = k
                THEN a[CHOOSE i \in 1..Len(a) : posA[i] = k]
                ELSE b[CHOOSE j \in 1..Len(b) : posB[j] = k]]

\* The sorted list of s[lo], ..., s[hi].
RECURSIVE SortRange(_, _, _)
SortRange(s, lo, hi) ==
    IF lo > hi THEN <<>>
    ELSE IF lo = hi THEN <<s[lo]>>
    ELSE LET mid == (lo + hi) \div 2
         IN  MergePairs(SortRange(s, lo, mid), SortRange(s, mid + 1, hi))

SortPairs(s) == SortRange(s, 1, Len(s))

\* Mutant of SortById: the list is returned in arrival order.
SortById_unsorted(s) == s

\* all_items.sort(key=lambda x: x["id"])
SortById(s) ==
    LET sorted == SortPairs([i \in 1..Len(s) |-> <<s[i].id, s[i]>>])
    IN  [k \in 1..Len(s) |-> sorted[k][2]]

\* sorted(photo["sizes"], key=lambda x: x["height"] * x["width"], reverse=True):
\* reverse=True keeps equal keys in their original order, so it is the stable
\* ascending sort by the negated key.
SortSizes(sizes) ==
    LET sorted == SortPairs([i \in 1..Len(sizes) |->
                               <<0 - (sizes[i].height * sizes[i].width), sizes[i]>>])
    IN  [k \in 1..Len(sizes) |-> sorted[k][2]]

\* ======================================================= get_image_url
Fault == [kind |-> "fault"]
Measured(bytes) == [kind |-> "ok", bytes |-> bytes]

\* Mutant of FitsCeiling: the size check is dropped.
FitsCeiling_any(bytes) == TRUE

\* image_size_mb <= MAX_IMAGE_SIZE_MB, with image_size_mb = len(content) / MiB
FitsCeiling(bytes) == bytes <= MAX_IMAGE_SIZE_MB * MiB

\* Mutant of ProbeLoop: a RequestException ends the loop instead of skipping
\* the variant.
RECURSIVE ProbeLoop_abort(_, _, _)
ProbeLoop_abort(photo_sizes, pr, k) ==
    IF k > Len(photo_sizes) THEN None
    ELSE LET image_url == photo_sizes[k].url
         IN  IF pr[image_url].kind = "fault" THEN None
             ELSE IF FitsCeiling(pr[image_url].bytes) THEN <<image_url>>
             ELSE ProbeLoop_abort(photo_sizes, pr, k + 1)

\* The for loop over photo_sizes from position k on; pr[url] is what
\* requests.get(image_url) does: a RequestException is swallowed (continue), a
\* measured size within the ceiling returns the URL.
RECURSIVE ProbeLoop(_, _, _)
ProbeLoop(photo_sizes, pr, k) ==
    IF k > Len(photo_sizes) THEN None
    ELSE LET image_url == photo_sizes[k].url
         IN  IF pr[image_url].kind = "ok" /\ FitsCeiling(pr[image_url].bytes)
             THEN <<image_url>>
             ELSE ProbeLoop(photo_sizes, pr, k + 1)

\* get_image_url(photos, index); the result is None or <<url>>.
get_image_url(ph, idx, pr) ==
    IF ph = <<>> \/ idx >= Len(ph) THEN None
    ELSE ProbeLoop(SortSizes(ph[idx + 1].sizes), pr, 1)

\* get_primary_image_url(item)
get_primary_image_url(item, pr) ==
    IF ~item.has_photos THEN None ELSE get_image_url(item.photos, 0, pr)

\* get_secondary_image_url(item)
get_secondary_image_url(item, pr) ==
    IF ~item.has_photos \/ Len(item.photos) < 2 THEN None
    ELSE get_image_url(item.photos, 1, pr)

\* ------------------------------------------------ inputs of the resolver
Dims == 1..MaxDim

\* A photo: "sizes" is a list of variants in no particular order; the URL of a
\* variant is its position in that list.
SizeLists ==
    UNION {{[i \in 1..n |-> [width |-> d[i][1], height |-> d[i][2], url |-> i]] :
               d \in [1..n -> Dims \X Dims]} : n \in 0..MaxVariants}
PhotoSet == {[sizes |-> s] : s \in SizeLists}

\* What one size probe can do: raise a RequestException, or measure a payload
\* just within or just over the ceiling.
Outcomes == {Fault, Measured(MAX_IMAGE_SIZE_MB * MiB), Measured(MAX_IMAGE_SIZE_MB * MiB + 1)}

\* The URLs get_image_url can probe for slot idx of ph, and what the image
\* endpoint can answer for each of them during one call.
NumProbes(ph, idx) == IF idx >= Len(ph) THEN 0 ELSE Len(ph[idx + 1].sizes)
ProbeSeqs(n) == [1..n -> Outcomes]

\* =============================================== get_all_vk_market_items
\* One answer of the marketplace endpoint to a page request.
TransportFault == [kind |-> "fault", count |-> 0, items |-> <<>>]
ApiError == [kind |-> "error", count |-> 0, items |-> <<>>]
Page(count, items) == [kind |-> "ok", count |-> count, items |-> items]

Append2(s, a, b) == Append(Append(s, a), b)

\* Leaving the loop: the sort, its print, and the return to main.
Break(items, lg, how) ==
    /\ all_items' = SortById(items)
    /\ log' = Append(lg, "Sorted")
    /\ pc' = "fetched"
    /\ exit' = how

\* Mutant of OnException: no try/except in the loop, the exception reaches
\* main and the accumulated items are lost.
OnException_propagate ==
    /\ all_items' = <<>>
    /\ log' = Append(log, "Critical")
    /\ pc' = "done"
    /\ exit' = "fault"
    /\ UNCHANGED <<offset, total_items, arrived>>

\* Mutant of OnException: the handler breaks without printing.
OnException_silent ==
    /\ Break(all_items, log, "fault")
    /\ UNCHANGED <<offset, total_items, arrived>>

\* except Exception as e: print(...); break
OnException ==
    /\ Break(all_items, Append(log, "RequestError"), "fault")
    /\ UNCHANGED <<offset, total_items, arrived>>

\* if "error" in data: print(...); break
OnApiError ==
    /\ Break(all_items, Append(log, "ApiError"), "error")
    /\ UNCHANGED <<offset, total_items, arrived>>

\* Mutant of OnEmptyPage: an empty page returns an empty list.
OnEmptyPage_discard(lg) ==
    /\ Break(<<>>, lg, "empty")
    /\ UNCHANGED <<offset, arrived>>

\* if not items: break
OnEmptyPage(lg) ==
    /\ Break(all_items, lg, "empty")
    /\ UNCHANGED <<offset, arrived>>

\* Mutant of NextOffset: the offset advances by one per page.
NextOffset_one(items) == offset + 1

\* offset += len(items)
NextOffset(items) == offset + Len(items)

\* Mutant of ReachedTotal: > in place of >=.
ReachedTotal_strict(got, total) == Len(got) > total

\* len(all_items) >= total_items
ReachedTotal(got, total) == Len(got) >= total

\* Mutant of KeepGoing: the next request follows without the sleep.
KeepGoing_nosleep(got, lg) ==
    /\ all_items' = got
    /\ log' = lg
    /\ pc' = "loop"
    /\ exit' = exit

\* The loop goes on: sleep(request_delay) is next.
KeepGoing(got, lg) ==
    /\ all_items' = got
    /\ log' = lg
    /\ pc' = "sleep"
    /\ exit' = exit

\* A response without "error": total_items is set on the first one, then the
\* page is accumulated.
OnPage(resp) ==
    LET total == IF total_items = None THEN <<resp.count>> ELSE total_items
        log1 == IF total_items = None THEN Append(log, "Total") ELSE log
        got == all_items \o resp.items
    IN  /\ total_items' = total
        /\ IF resp.items = <<>>
           THEN OnEmptyPage(log1)
           ELSE /\ offset' = NextOffset(resp.items)
                /\ arrived' = arrived \o resp.items
                /\ IF ReachedTotal(got, total[1])
                   THEN Break(got, Append(log1, "Loaded"), "total")
                   ELSE KeepGoing(got, Append(log1, "Loaded"))

\* One iteration of the while loop, from requests.get to the sleep or, on a
\* break, through the sort to the return.
FetchPage(resp) ==
    /\ pc = "loop"
    /\ events' = Append(events, "req")
    /\ reqs' = Append(reqs, [offset |-> offset, have |-> Len(all_items)])
    /\ UNCHANGED <<rows, saved>>
    /\ IF resp.kind = "fault" THEN OnException
       ELSE IF resp.kind = "error" THEN OnApiError
       ELSE OnPage(resp)

\* sleep(request_delay), then back to the top of the loop
Sleep ==
    /\ pc = "sleep"
    /\ pc' = "loop"
    /\ events' = Append(events, "sleep")
    /\ UNCHANGED <<all_items, offset, total_items, log, rows, saved, arrived, reqs, exit>>

\* ------------------------------------------------- the server of the run
IDs == 1..MaxId
Items == {[id |-> i] : i \in IDs}

\* Pages of catalog items not delivered before (identifiers are unique within
\* a catalog), in any order, of any length up to MaxPageLen.
Fresh == {it \in Items : \A k \in 1..Len(arrived) : arrived[k] # it}
FreshPages == UNION {{p \in [1..n -> Fresh] : \A i, j \in 1..n : i # j => p[i] # p[j]} :
                        n \in 0..MaxPageLen}

\* Any server: a transport fault (requests.get or response.json raises, or the
\* body lacks "response"), an API error, or a well-typed page with any total.
Responses == {TransportFault, ApiError} \cup
             {Page(c, p) : c \in 0..MaxTotal, p \in FreshPages}

\* The well-behaved server: total T, and at offset o the items o+1 .. o+min(P, T-o).
HonestPage(T, o) ==
    Page(T, [k \in 1..Max(0, Min(items_per_request, T - o)) |-> [id |-> o + k]])
HonestResponses ==
    IF total_items = None THEN {HonestPage(T, offset) : T \in 1..MaxHonestTotal}
    ELSE {HonestPage(total_items[1], offset)}

Fetch == \E resp \in Responses : FetchPage(resp)
FetchHonest == \E resp \in HonestResponses : FetchPage(resp)

\* ===================================================== main, export
\* main: "if not items: print(...); return"
MainNoItems ==
    /\ pc = "fetched"
    /\ all_items = <<>>
    /\ pc' = "done"
    /\ log' = Append(log, "NoItems")
    /\ UNCHANGED <<all_items, offset, total_items, rows, saved, arrived, events, reqs, exit>>

\* Mutant of StartExport: main lacks the "if not items" return.
StartExport_unguarded ==
    /\ pc = "fetched"
    /\ pc' = "export"
    /\ log' = Append(log, "CreatingExcel")
    /\ UNCHANGED <<all_items, offset, total_items, rows, saved, arrived, events, reqs, exit>>

\* main calls create_excel_file, which prints and opens the workbook
StartExport ==
    /\ pc = "fetched"
    /\ all_items # <<>>
    /\ pc' = "export"
    /\ log' = Append(log, "CreatingExcel")
    /\ UNCHANGED <<all_items, offset, total_items, rows, saved, arrived, events, reqs, exit>>

\* The photos an item can carry when its row is written: no "photos" key, or a
\* list of photos with one variant each.
ExportPhoto == [sizes |-> <<[width |-> 1, height |-> 1, url |-> 1]>>]
Payloads == {[has_photos |-> FALSE, photos |-> <<>>]} \cup
            {[has_photos |-> TRUE, photos |-> [k \in 1..n |-> ExportPhoto]] : n \in 0..MaxPhotos}

\* The cells of one data row that the model keeps: columns A, F and G.
Row(item, payload, pr1, pr2) ==
    [id |-> item.id,
     primary |-> get_primary_image_url(payload, pr1),
     secondary |-> get_secondary_image_url(payload, pr2)]

\* One iteration of "for row_num, item in enumerate(items, start=2)"
WriteRow ==
    /\ pc = "export"
    /\ Len(rows) < Len(all_items)
    /\ \E payload \in Payloads :
         \E pr1 \in ProbeSeqs(NumProbes(payload.photos, 0)),
            pr2 \in ProbeSeqs(NumProbes(payload.photos, 1)) :
           rows' = Append(rows, Row(all_items[Len(rows) + 1], payload, pr1, pr2))
    /\ UNCHANGED <<pc, all_items, offset, total_items, log, saved, arrived, events, reqs, exit>>

\* os.makedirs, workbook.save, the two prints, and main's closing print
SaveFile ==
    /\ pc = "export"
    /\ Len(rows) = Len(all_items)
    /\ saved' = TRUE
    /\ pc' = "done"
    /\ log' = Append(Append2(log, "FileCreated", "Exported"), "Success")
    /\ UNCHANGED <<all_items, offset, total_items, rows, arrived, events, reqs, exit>>

\* Any exception inside create_excel_file: printed, re-raised, caught by main
ExportFault ==
    /\ pc = "export"
    /\ pc' = "done"
    /\ log' = Append2(log, "FileError", "Critical")
    /\ UNCHANGED <<all_items, offset, total_items, rows, saved, arrived, events, reqs, exit>>

\* ============================================================ the run
InitFetch ==
    /\ pc = "loop"
    /\ all_items = <<>>
    /\ offset = 0
    /\ total_items = None
    /\ log = <<"Banner", "Loading">>
    /\ rows = <<>>
    /\ saved = FALSE
    /\ arrived = <<>>
    /\ events = <<>>
    /\ reqs = <<>>
    /\ exit = "none"

NoImageRun ==
    /\ photos = <<>>
    /\ index = 0
    /\ probes = <<>>
    /\ result = <<"pending">>

Init == InitFetch /\ NoImageRun

Next ==
    \/ (Fetch /\ UNCHANGED imageVars)
    \/ (Sleep /\ UNCHANGED imageVars)
    \/ (MainNoItems /\ UNCHANGED imageVars)
    \/ (StartExport /\ UNCHANGED imageVars)
    \/ (WriteRow /\ UNCHANGED imageVars)
    \/ (SaveFile /\ UNCHANGED imageVars)
    \/ (ExportFault /\ UNCHANGED imageVars)

Spec == Init /\ [][Next]_vars

\* get_all_vk_market_items on its own, against any server, with fairness: a
\* page request that is issued is answered or faults, and a sleep ends.
NextFetch ==
    \/ (Fetch /\ UNCHANGED imageVars)
    \/ (Sleep /\ UNCHANGED imageVars)

FairFetch == Init /\ [][NextFetch]_vars /\ WF_vars(NextFetch)

\* ------------------ get_all_vk_market_items against the well-behaved server
NextPaging ==
    \/ (FetchHonest /\ UNCHANGED imageVars)
    \/ (Sleep /\ UNCHANGED imageVars)

SpecPaging == Init /\ [][NextPaging]_vars

\* ------------------------------------------- get_image_url on its own
InitImage ==
    /\ InitFetch
    /\ index \in {0, 1}
    /\ \E n \in 0..MaxPhotos, photo \in PhotoSet :
         photos = [i \in 1..n |-> IF i = index + 1 THEN photo ELSE ExportPhoto]
    /\ probes \in ProbeSeqs(NumProbes(photos, index))
    /\ result = <<"pending">>

\* The call get_image_url(photos, index)
Resolve ==
    /\ result = <<"pending">>
    /\ result' = <<"returned", get_image_url(photos, index, probes)>>
    /\ UNCHANGED <<photos, index, probes>>
    /\ UNCHANGED fetchVars

NextImage == Resolve

SpecImage == InitImage /\ [][NextImage]_vars

\* =========================================================== properties
\* get_all_vk_market_items has returned to main.
Returned == pc \in {"fetched", "export", "done"}

\* The identifiers of s are strictly ascending.
StrictlyAscending(s) == \A k \in 1..(Len(s) - 1) : s[k].id < s[k + 1].id

\* s and t hold the same items, each as often in the one as in the other.
Count(s, x) == Cardinality({k \in 1..Len(s) : s[k] = x})
SameItems(s, t) ==
    /\ Len(s) = Len(t)
    /\ \A k \in 1..Len(s) : Count(s, s[k]) = Count(t, s[k])

\* ceil(a / b)
CeilDiv(a, b) == (a + b - 1) \div b

\* ---------------------------------------------------------------- C1
\* C1: against a server that reports total T > 0 and answers offset o with
\* min(P, T - o) items, every page request carries as offset the number of
\* items accumulated so far, and on return exactly ceil(T / P) requests have
\* been issued and T items are held.
C1_HonestPagination ==
    /\ \A k \in 1..Len(reqs) : reqs[k].offset = reqs[k].have
    /\ Returned =>
         /\ total_items # None
         /\ Len(reqs) = CeilDiv(total_items[1], items_per_request)
         /\ Len(all_items) = total_items[1]

\* total 250, page size 100: three requests at offsets 0, 100, 200
C1_Witness ==
    /\ Returned
    /\ total_items = <<250>>
    /\ Len(all_items) = 250
    /\ reqs = <<[offset |-> 0, have |-> 0], [offset |-> 100, have |-> 100],
                [offset |-> 200, have |-> 200]>>

\* ---------------------------------------------------------------- C2
\* C2: once a page request has yielded an API error or a transport fault, the
\* function has returned, that request is the last event of the loop (no
\* retry, no later page, no delay), and the list returned holds exactly the
\* items the earlier pages delivered, in ascending identifier order.
C2_AbortReturnsPartial ==
    exit \in {"error", "fault"} =>
        /\ Returned
        /\ events[Len(events)] = "req"
        /\ Len(arrived) = reqs[Len(reqs)].have
        /\ SameItems(all_items, arrived)
        /\ StrictlyAscending(all_items)

\* a fault on the third request, after two pages that arrived out of order
C2_Witness ==
    /\ exit = "fault"
    /\ Len(reqs) = 3
    /\ Len(all_items) = 2
    /\ arrived[1].id > arrived[2].id

\* ---------------------------------------------------------------- C4
\* C4: once a page has come back empty, the function has returned, that
\* request is the last event of the loop, and the list returned holds every
\* item the earlier pages delivered.
C4_EmptyPageKeepsItems ==
    exit = "empty" =>
        /\ Returned
        /\ events[Len(events)] = "req"
        /\ Len(all_items) = reqs[Len(reqs)].have
        /\ SameItems(all_items, arrived)

\* an empty second page, short of the reported total, after a page of two
C4_Witness ==
    /\ exit = "empty"
    /\ Len(reqs) = 2
    /\ Len(all_items) = 2
    /\ total_items = <<3>>

\* ---------------------------------------------------------------- C5
\* C5: on every exit path the list returned is a permutation of the items
\* accumulated, in strictly ascending identifier order, and the rows written
\* follow that order.
C5_SortedOutput ==
    Returned =>
        /\ exit \in {"total", "empty", "error", "fault"}
        /\ SameItems(all_items, arrived)
        /\ StrictlyAscending(all_items)
        /\ \A k \in 1..Len(rows) : rows[k].id = all_items[k].id

\* three items that arrived as 3, 1, 2 over two pages, all rows written
C5_Witness ==
    /\ Returned
    /\ exit = "total"
    /\ Len(arrived) = 3
    /\ arrived[1].id = 3 /\ arrived[2].id = 1 /\ arrived[3].id = 2
    /\ Len(reqs) = 2
    /\ Len(rows) = 3

\* ---------------------------------------------------------------- C7
\* C7: requests and pacing delays alternate, starting with a request, so each
\* request but the first directly follows one delay; and once the function has
\* returned the last event is a request, not a delay.
C7_Pacing ==
    /\ \A k \in 1..Len(events) : events[k] = (IF k % 2 = 1 THEN "req" ELSE "sleep")
    /\ pc = "loop" => (events = <<>> \/ events[Len(events)] = "sleep")
    /\ Returned => events[Len(events)] = "req"

\* three requests with two delays between them, ended by a transport fault
C7_Witness ==
    /\ Returned
    /\ exit = "fault"
    /\ events = <<"req", "sleep", "req", "sleep", "req">>

\* ---------------------------------------------------------------- C9
\* C9: a saved spreadsheet has one data row per fetched item, row k holding
\* item k; and after an empty fetch no row is written and no file is saved.
C9_RowsMatchItems ==
    /\ saved => /\ Len(rows) = Len(all_items)
                /\ \A k \in 1..Len(rows) : rows[k].id = all_items[k].id
    /\ (Returned /\ all_items = <<>>) =>
           (~saved /\ rows = <<>> /\ pc \in {"fetched", "done"})

\* a file saved with the two rows of a fetch that a transport fault cut short
C9_Witness ==
    /\ saved
    /\ exit = "fault"
    /\ Len(rows) = 2
    /\ total_items = <<3>>

\* ---------------------------------------------------------------- C3
\* The slot handed to get_image_url exists, and the call has returned.
SlotResolved == result[1] = "returned" /\ index < Len(photos)

Area(v) == v.width * v.height

\* The probe of variant v succeeds and measures at most 6 MiB.
Within(v) == probes[v.url].kind = "ok" /\ probes[v.url].bytes <= 6 * 1024 * 1024

\* The positions, in the slot's "sizes", of the variants within the ceiling.
Fitting == {i \in 1..Len(photos[index + 1].sizes) : Within(photos[index + 1].sizes[i])}

\* C3: for a slot that exists, get_image_url returns None or the URL of a
\* variant within the ceiling that has the largest pixel area among the
\* variants within the ceiling; with no variant within the ceiling it returns
\* None.
C3_LargestWithinCeiling ==
    SlotResolved =>
        LET sizes == photos[index + 1].sizes
        IN  /\ result[2] # None =>
                 \E i \in Fitting :
                    /\ sizes[i].url = result[2][1]
                    /\ \A j \in Fitting : Area(sizes[j]) <= Area(sizes[i])
            /\ Fitting = {} => result[2] = None

\* two variants within the ceiling, the larger one listed second and returned
C3_Witness ==
    /\ SlotResolved
    /\ Len(photos[index + 1].sizes) = 2
    /\ Fitting = {1, 2}
    /\ Area(photos[index + 1].sizes[1]) < Area(photos[index + 1].sizes[2])
    /\ result[2] = <<2>>

\* every variant measured, every one over the ceiling: None
C3_WitnessOversized ==
    /\ SlotResolved
    /\ Len(photos[index + 1].sizes) = 2
    /\ \A i \in 1..2 : probes[i].kind = "ok"
    /\ Fitting = {}
    /\ result[2] = None

\* ---------------------------------------------------------------- C6
\* The positions of the variants whose probe raises and which the loop reaches:
\* those of a larger area than the variant returned, all of them if None is
\* returned.
FaultedBeforeResult ==
    LET sizes == photos[index + 1].sizes
    IN  {i \in 1..Len(sizes) :
            /\ probes[sizes[i].url].kind = "fault"
            /\ \/ result[2] = None
               \/ \E r \in 1..Len(sizes) :
                     sizes[r].url = result[2][1] /\ Area(sizes[i]) > Area(sizes[r])}

\* C6: when a probe raises, get_image_url still returns, and what it returns is
\* the first variant in descending area order that is within the ceiling:
\* a variant within the ceiling that no variant within the ceiling exceeds in
\* area, and None only if no variant is within the ceiling.
C6_FaultSkipsVariant ==
    (SlotResolved /\ FaultedBeforeResult # {}) =>
        LET sizes == photos[index + 1].sizes
        IN  /\ result[2] = None <=> Fitting = {}
            /\ result[2] # None =>
                 \E i \in Fitting :
                    /\ sizes[i].url = result[2][1]
                    /\ \A j \in Fitting : Area(sizes[j]) <= Area(sizes[i])

\* the larger variant's probe raises, the smaller one is returned
C6_Witness ==
    /\ SlotResolved
    /\ FaultedBeforeResult # {}
    /\ result[2] # None

\* ---------------------------------------------------------------- C8
InLog(tag) == \E k \in 1..Len(log) : log[k] = tag

\* The tag was printed right before the fetch's closing print.
ReportedBeforeReturn(tag) ==
    \E k \in 1..(Len(log) - 1) : log[k] = tag /\ log[k + 1] = "Sorted"

\* create_excel_file was entered and the run ended without a saved file.
ExportFailed == pc = "done" /\ ~saved /\ all_items # <<>>

\* C8 as stated: a cause is printed for a transport fault, for an API error,
\* for an export fault, and whenever pagination ends short of the reported
\* total.
C8_NoSilentFailure ==
    /\ exit = "fault" => ReportedBeforeReturn("RequestError")
    /\ exit = "error" => ReportedBeforeReturn("ApiError")
    /\ ExportFailed => InLog("FileError")
    /\ (Returned /\ total_items # None /\ Len(all_items) < total_items[1]) =>
          (ReportedBeforeReturn("RequestError") \/ ReportedBeforeReturn("ApiError"))

\* C8, amended: a cause is printed before the phase ends for a transport fault
\* on a page, for an API error on a page, and for a fault while the
\* spreadsheet is written.
C8_FailuresReported ==
    /\ exit = "fault" => ReportedBeforeReturn("RequestError")
    /\ exit = "error" => ReportedBeforeReturn("ApiError")
    /\ ExportFailed => (InLog("FileError") /\ log[Len(log)] = "Critical")

\* a transport fault on the second page, reported
C8_Witness ==
    /\ exit = "fault"
    /\ Len(reqs) = 2
    /\ pc = "fetched"
    /\ InLog("RequestError")

\* --------------------------------------------------------------- C10
ReportedTotal == IF total_items = None THEN 0 ELSE total_items[1]

\* C10: the fetch returns, after at most max(1, T) page requests, and every
\* request that does not end the loop raises the offset and the count held.
C10_FetchTerminates ==
    /\ <>Returned
    /\ [](Len(reqs) <= Max(1, ReportedTotal))
    /\ [][(pc = "loop" /\ pc' = "sleep") =>
            (offset' > offset /\ Len(all_items') > Len(all_items))]_vars

\* total 3 delivered one item per page: three requests
C10_Witness ==
    /\ Returned
    /\ total_items = <<3>>
    /\ Len(reqs) = 3
    /\ exit = "total"

====
